---- MODULE Spec2Model ----
(***************************************************************************)
(* Sudoku solving engine of src/lib/sudoku: the grid predicates, the three *)
(* grid strategies and the depth-first driver of sudokus.ts, and the AC3   *)
(* reducer and the AC3 strategy of ac3.ts.                                 *)
(*                                                                         *)
(* Grids are indexed as in the source, sudoku[i][j] with i, j in 0..8.     *)
(* A domain is a sequence of digits (a JavaScript array), so that indexOf, *)
(* splice and domain2[0] read as they do in the source.                    *)
(***************************************************************************)
EXTENDS Integers, Sequences, FiniteSets, TLC

\* Side of the grid: the loops `for (let i = 0; i < 9; i++)`.
N == 9

\* Side of a square: the loops `for (let k = 0; k < 3; k++)`.
B == 3

\* The largest number of cells emptied among HoleCells in an initial grid.
MaxHoles == 3

Idx == 0 .. (N - 1)

Digits == 1 .. N

\* The cells <<i, j>> in the order of the nested loops over i and then j.
CellsRowMajor == [n \in 1 .. (N * N) |-> <<(n - 1) \div N, (n - 1) % N>>]

Range(s) == {s[n] : n \in 1 .. Len(s)}

(***************************************************************************)
(* sudokus.ts: the grid predicates.                                        *)
(***************************************************************************)

isSudokuFilled(sudoku) == \A i \in Idx : \A j \in Idx : sudoku[i][j] # 0

\* `set.size !== group.filter((n) => n !== 0).length` for one group of nine
\* cells, given as a set of cells.
GroupHasDuplicate(sudoku, group) ==
    Cardinality({sudoku[c[1]][c[2]] : c \in group} \ {0})
      # Cardinality({c \in group : sudoku[c[1]][c[2]] # 0})

isSudokuValid(sudoku) ==
    /\ \A i \in Idx : ~GroupHasDuplicate(sudoku, {<<i, j>> : j \in Idx})
    /\ \A i \in Idx : ~GroupHasDuplicate(sudoku, {<<r, i>> : r \in Idx})
    /\ \A i \in 0 .. (B - 1) : \A j \in 0 .. (B - 1) :
         ~GroupHasDuplicate(sudoku,
            {<<i * B + k, j * B + l>> : k \in 0 .. (B - 1), l \in 0 .. (B - 1)})

(***************************************************************************)
(* sudokus.ts: the strategies on plain grids.                              *)
(***************************************************************************)

\* The digit written with the indices swapped: `newSudoku[j][i] = k`.
SetCellTransposed(sudoku, i, j, k) == [sudoku EXCEPT ![j][i] = k]

\* `const newSudoku = sudoku.map((row) => row.slice()); newSudoku[i][j] = k`
SetCell(sudoku, i, j, k) == [sudoku EXCEPT ![i][j] = k]

getEmptyCoordinates(sudoku) ==
    SelectSeq(CellsRowMajor, LAMBDA c : sudoku[c[1]][c[2]] = 0)

\* The digits start at 0: the first child is the grid itself.
AllDigitsFromZero(sudoku, i, j) == [k \in 1 .. N |-> SetCell(sudoku, i, j, k - 1)]

\* The children for the digits 1..9 in ascending order at cell <<i, j>>.
AllDigits(sudoku, i, j) == [k \in 1 .. N |-> SetCell(sudoku, i, j, k)]

bruteForceStrategy(sudoku) ==
    LET empty == getEmptyCoordinates(sudoku)
    IN  IF empty = <<>> THEN <<>>
        ELSE AllDigits(sudoku, empty[1][1], empty[1][2])

\* The validity filter left out.
withValidCheckUnfiltered(sudoku) == bruteForceStrategy(sudoku)

withValidCheckStrategy(sudoku) ==
    LET empty == getEmptyCoordinates(sudoku)
    IN  IF empty = <<>> THEN <<>>
        ELSE SelectSeq(AllDigits(sudoku, empty[1][1], empty[1][2]), isSudokuValid)

\* Array.prototype.sort and lodash sortBy on triples <<i, j, key>>: a stable
\* sort by the third component, ascending.
RECURSIVE SortByKey(_)
SortByKey(s) ==
    IF s = <<>> THEN <<>>
    ELSE LET front == SortByKey(SubSeq(s, 1, Len(s) - 1))
             e     == s[Len(s)]
             k     == Cardinality({n \in 1 .. Len(front) : front[n][3] <= e[3]})
         IN  SubSeq(front, 1, k) \o <<e>> \o SubSeq(front, k + 1, Len(front))

\* `[i, j, 9 - set.size]` for every empty coordinate.
possibilities(sudoku) ==
    LET count(i, j) ==
          N - Cardinality(
                ( {sudoku[i][c] : c \in Idx}
                  \cup {sudoku[r][j] : r \in Idx}
                  \cup {sudoku[i - (i % B) + k][j - (j % B) + l] :
                          k \in 0 .. (B - 1), l \in 0 .. (B - 1)} ) \ {0})
        empty == getEmptyCoordinates(sudoku)
    IN  [n \in 1 .. Len(empty) |->
           <<empty[n][1], empty[n][2], count(empty[n][1], empty[n][2])>>]

\* The sort left out.
unsortedPossibilities(sudoku) == possibilities(sudoku)

sortedPossibilities(sudoku) == SortByKey(possibilities(sudoku))

\* `const [i, j] = sortedPossibilities[0]` destructures undefined when there is
\* no empty coordinate: a TypeError.
minimumRemainingValueThrows(sudoku) == sortedPossibilities(sudoku) = <<>>

minimumRemainingValueStrategy(sudoku) ==
    LET first == sortedPossibilities(sudoku)[1]
    IN  SelectSeq(AllDigits(sudoku, first[1], first[2]), isSudokuValid)

(***************************************************************************)
(* common.ts is not among the sources: the domain model and the square     *)
(* table are written from the specification (sections 3 and 4.2).          *)
(***************************************************************************)

\* Filled cell: the singleton of its digit; empty cell: 1..9 ascending.
toDomainSudoku(sudoku) ==
    [i \in Idx |-> [j \in Idx |->
       IF sudoku[i][j] # 0 THEN <<sudoku[i][j]>> ELSE [k \in 1 .. N |-> k]]]

\* A singleton domain gives its digit, any other domain gives 0.
toSimpleSudoku(domains) ==
    [i \in Idx |-> [j \in Idx |->
       IF Len(domains[i][j]) = 1 THEN domains[i][j][1] ELSE 0]]

\* Block index of the cell in column x and row y: (row / 3) * 3 + (column / 3).
squareIndex(x, y) == (y \div B) * B + (x \div B)

\* For each block, its nine coordinates as [x, y] pairs.
SQUARE_TABLE ==
    [s \in 0 .. (N - 1) |-> [c \in 1 .. N |->
       <<(s % B) * B + ((c - 1) % B), (s \div B) * B + ((c - 1) \div B)>>]]

(***************************************************************************)
(* ac3.ts: the reducer.  A coordinate array is a record: xy is its content *)
(* and ref the identity of the array object, which is what lodash uniq     *)
(* (SameValueZero) compares.                                               *)
(***************************************************************************)

\* The copy left out: the local grid is the caller's grid.
ac3Alias(domains) == [sudoku |-> domains, private |-> FALSE]

\* `sudoku = sudoku.map((r) => r.map((c) => c.slice()))`
ac3Copy(domains) ==
    [sudoku |-> [i \in Idx |-> [j \in Idx |-> domains[i][j]]], private |-> TRUE]

\* Only the cells of the diagonal are queued.
initialQueueDiagonal ==
    [n \in 1 .. N |-> [xy |-> <<n - 1, n - 1>>, ref |-> n]]

\* The queue as first filled: `coordinatesQueue.push([x, y])` for y, then x.
initialQueue ==
    [n \in 1 .. (N * N) |-> [xy |-> <<(n - 1) % N, (n - 1) \div N>>, ref |-> n]]

\* The coordinates pushed for the cell dequeued as [x, y], in push order:
\* [y, xx] along the row, [yy, x] along the column, [yy, xx] in the square.
constraintCoordinates(x, y) ==
    LET row    == SelectSeq([n \in 1 .. N |-> <<y, n - 1>>], LAMBDA c : c[2] # x)
        column == SelectSeq([n \in 1 .. N |-> <<n - 1, x>>], LAMBDA c : c[1] # y)
        square == SQUARE_TABLE[squareIndex(x, y)]
        inSquare ==
          SelectSeq([c \in 1 .. N |-> <<square[c][2], square[c][1]>>],
                    LAMBDA c : ~(c[2] = x /\ c[1] = y))
    IN  row \o column \o inSquare

\* A neighbour's domain removes its first value whenever it is not empty.
isSingletonOrMore(domain2) == Len(domain2) >= 1

\* `domain2.length === 1`
isSingleton(domain2) == Len(domain2) = 1

\* `index = domain1.indexOf(v); if (index !== -1) domain1.splice(index, 1)`
spliceValue(domain1, v) ==
    IF v \notin Range(domain1) THEN domain1
    ELSE LET index == CHOOSE n \in 1 .. Len(domain1) :
                        /\ domain1[n] = v
                        /\ \A m \in 1 .. (n - 1) : domain1[m] # v
         IN  SubSeq(domain1, 1, index - 1) \o SubSeq(domain1, index + 1, Len(domain1))

\* The loop `for (const [yy, xx] of constraintCoordinates)` over the rest cc of
\* the coordinates: domain1 once every neighbour has been looked at.
RECURSIVE reviseDomain(_, _, _)
reviseDomain(domain1, sudoku, cc) ==
    IF cc = <<>> THEN domain1
    ELSE LET domain2 == sudoku[cc[1][1]][cc[1][2]]
         IN  reviseDomain(
               IF isSingleton(domain2) THEN spliceValue(domain1, domain2[1])
               ELSE domain1,
               sudoku, Tail(cc))

\* lodash uniq: the first occurrence of every array object is kept.
RECURSIVE uniqByRef(_)
uniqByRef(s) ==
    IF s = <<>> THEN <<>>
    ELSE LET front == uniqByRef(SubSeq(s, 1, Len(s) - 1))
             e     == s[Len(s)]
         IN  IF \E n \in 1 .. Len(front) : front[n].ref = e.ref
             THEN front ELSE Append(front, e)

uniq(s) ==
    IF Cardinality({s[n].ref : n \in 1 .. Len(s)}) = Len(s) THEN s
    ELSE uniqByRef(s)

\* A cell with a single value left is reported as a contradiction.
isDomainEmptyOrSingle(domain1) == Len(domain1) <= 1

\* No domain is taken for empty.
isDomainNeverEmpty(domain1) == FALSE

\* `domain1.length === 0`
isDomainEmpty(domain1) == Len(domain1) = 0

\* The locals of ac3 when the call starts.
ac3Enter(domains) ==
    [sudoku           |-> ac3Copy(domains).sudoku,
     private          |-> ac3Copy(domains).private,
     coordinatesQueue |-> initialQueue,
     refs             |-> N * N,
     x                |-> 0,
     y                |-> 0,
     change           |-> FALSE,
     returned         |-> FALSE,
     solvable         |-> TRUE]

\* A pass that puts the cell and its constraints back whether or not the
\* domain changed.
ac3IterationRequeueAlways(f) ==
    LET x       == Head(f.coordinatesQueue).xy[1]
        y       == Head(f.coordinatesQueue).xy[2]
        cc      == constraintCoordinates(x, y)
        domain1 == reviseDomain(f.sudoku[y][x], f.sudoku, cc)
        pushed  == << [xy |-> <<x, y>>, ref |-> f.refs + 1] >>
                   \o [n \in 1 .. Len(cc) |-> [xy |-> cc[n], ref |-> f.refs + 1 + n]]
    IN  [f EXCEPT
           !.sudoku = [f.sudoku EXCEPT ![y][x] = domain1],
           !.x = x,
           !.y = y,
           !.change = TRUE,
           !.returned = isDomainEmpty(domain1),
           !.solvable = ~isDomainEmpty(domain1),
           !.coordinatesQueue = uniq(Tail(f.coordinatesQueue) \o pushed),
           !.refs = f.refs + 1 + Len(cc)]

\* One pass of `while (coordinatesQueue.length > 0)` on the locals f.
ac3Iteration(f) ==
    LET x       == Head(f.coordinatesQueue).xy[1]
        y       == Head(f.coordinatesQueue).xy[2]
        rest    == Tail(f.coordinatesQueue)
        cc      == constraintCoordinates(x, y)
        domain1 == reviseDomain(f.sudoku[y][x], f.sudoku, cc)
        change  == Len(domain1) # Len(f.sudoku[y][x])
        pushed  == << [xy |-> <<x, y>>, ref |-> f.refs + 1] >>
                   \o [n \in 1 .. Len(cc) |-> [xy |-> cc[n], ref |-> f.refs + 1 + n]]
    IN  [f EXCEPT
           !.sudoku = [f.sudoku EXCEPT ![y][x] = domain1],
           !.x = x,
           !.y = y,
           !.change = change,
           !.returned = isDomainEmpty(domain1),
           !.solvable = ~isDomainEmpty(domain1),
           !.coordinatesQueue =
              IF ~isDomainEmpty(domain1) /\ change THEN uniq(rest \o pushed)
              ELSE rest,
           !.refs = IF ~isDomainEmpty(domain1) /\ change
                    THEN f.refs + 1 + Len(cc) ELSE f.refs]

(***************************************************************************)
(* ac3.ts: AC3Strategy after the call of ac3, on what ac3 returned.        *)
(***************************************************************************)

\* The cells are listed from the last row and column backwards.
emptyCellCoordinatesBackwards(reduced) ==
    LET backwards == [n \in 1 .. Len(CellsRowMajor) |->
                        CellsRowMajor[Len(CellsRowMajor) + 1 - n]]
        cells     == SelectSeq(backwards, LAMBDA c : Len(reduced[c[1]][c[2]]) > 1)
    IN  [n \in 1 .. Len(cells) |->
           <<cells[n][1], cells[n][2], Len(reduced[cells[n][1]][cells[n][2]])>>]

\* `[i, j]` of every cell with more than one value, with its domain's length.
emptyCellCoordinates(reduced) ==
    LET cells == SelectSeq(CellsRowMajor, LAMBDA c : Len(reduced[c[1]][c[2]]) > 1)
    IN  [n \in 1 .. Len(cells) |->
           <<cells[n][1], cells[n][2], Len(reduced[cells[n][1]][cells[n][2]])>>]

sortedPossibleRowAndCells(reduced) == SortByKey(emptyCellCoordinates(reduced))

AC3Solved(reduced) ==
    /\ isSudokuFilled(toSimpleSudoku(reduced))
    /\ isSudokuValid(toSimpleSudoku(reduced))

\* `const [rowIndex, cellIndex] = sortedPossibleRowAndCells[0]` destructures
\* undefined when the list is empty (`!emptyCellCoordinates` is never true).
AC3StrategyThrows(f) ==
    /\ f.solvable
    /\ ~AC3Solved(f.sudoku)
    /\ sortedPossibleRowAndCells(f.sudoku) = <<>>

AC3StrategyReturn(f) ==
    IF ~f.solvable THEN <<>>
    ELSE IF AC3Solved(f.sudoku) THEN <<toSimpleSudoku(f.sudoku)>>
    ELSE LET first == sortedPossibleRowAndCells(f.sudoku)[1]
             cell  == f.sudoku[first[1]][first[2]]
         IN  [n \in 1 .. Len(cell) |->
                SetCell(toSimpleSudoku(f.sudoku), first[1], first[2], cell[n])]

(***************************************************************************)
(* The initial grids: a solved grid with at most MaxHoles of HoleCells     *)
(* emptied and possibly a wrong digit written over one cell; the same      *)
(* solved grid with the five cells of ChainHoles emptied (one solution,    *)
(* found by ac3 only through a chain of removals); and with the six cells  *)
(* of TwinHoles emptied (two solutions: the digits 1 and 4 exchanged).     *)
(***************************************************************************)

Solved == [i \in Idx |-> [j \in Idx |-> ((B * i + (i \div B) + j) % N) + 1]]

HoleCells == {<<0, 0>>, <<0, 1>>, <<3, 0>>, <<8, 1>>, <<8, 7>>}

ChainHoles == {<<3, 2>>, <<3, 8>>, <<4, 8>>, <<5, 2>>, <<5, 5>>}

TwinHoles == {<<0, 0>>, <<0, 3>>, <<1, 0>>, <<1, 6>>, <<2, 3>>, <<2, 6>>}

\* <<i, j, k>>: digit k written at cell <<i, j>>.
Pokes == {<<0, 1, 1>>}

Dig(grid, holes) ==
    [i \in Idx |-> [j \in Idx |-> IF <<i, j>> \in holes THEN 0 ELSE grid[i][j]]]

Poke(grid, pokes) ==
    [i \in Idx |-> [j \in Idx |->
       IF \E p \in pokes : p[1] = i /\ p[2] = j
       THEN (CHOOSE p \in pokes : p[1] = i /\ p[2] = j)[3]
       ELSE grid[i][j]]]

InitialGrids ==
    {Poke(Dig(Solved, holes), pokes) :
       holes \in {h \in SUBSET HoleCells : Cardinality(h) <= MaxHoles},
       pokes \in SUBSET Pokes}
    \cup {Dig(Solved, ChainHoles), Dig(Solved, TwinHoles)}

(***************************************************************************)
(* The driver dfs of sudokus.ts (lines 90-106, where the function stands   *)
(* commented out), run on one initial grid with each of the four           *)
(* strategies in turn.  A call of dfs is one step; the call of AC3Strategy *)
(* is split at the passes of ac3's loop.                                   *)
(***************************************************************************)

Strategies == <<"AC3", "minimumRemainingValue", "withValidCheck", "bruteForce">>

NoFrame ==
    [sudoku |-> <<>>, private |-> TRUE, coordinatesQueue |-> <<>>, refs |-> 0,
     x |-> 0, y |-> 0, change |-> FALSE, returned |-> FALSE, solvable |-> TRUE]

Pending == [kind |-> "pending", sudoku |-> <<>>]

VARIABLES
    initial,       \* the grid every run starts from
    strategy,      \* index in Strategies of the run under way
    outcome,       \* per strategy, what its run ended with
    pc,            \* "dfs", "ac3", "AC3Strategy", "returned" or "threw"
    stack,         \* the argument `stack` of the dfs call at hand
    sudoku,        \* the grid the strategy was last called on
    newSudokus,    \* what that call returned
    invoked,       \* whether the strategy was called in this run
    domainSudoku,  \* AC3Strategy's domainSudoku, the argument of ac3
    ac3            \* the locals of the ac3 call

vars == <<initial, strategy, outcome, pc, stack, sudoku, newSudokus, invoked,
          domainSudoku, ac3>>

Init ==
    /\ initial \in InitialGrids
    /\ strategy = 1
    /\ outcome = [s \in 1 .. Len(Strategies) |-> Pending]
    /\ pc = "dfs"
    /\ stack = <<initial>>
    /\ sudoku = initial
    /\ newSudokus = <<>>
    /\ invoked = FALSE
    /\ domainSudoku = <<>>
    /\ ac3 = NoFrame

\* `if (isFilled && isValid) return [sudoku, []]` holds of the first grid.
HeadSolved == isSudokuFilled(Head(stack)) /\ isSudokuValid(Head(stack))

\* `if (stack.length === 0) return [null, []]`
DfsEmpty ==
    /\ pc = "dfs"
    /\ stack = <<>>
    /\ outcome' = [outcome EXCEPT ![strategy] = [kind |-> "none", sudoku |-> <<>>]]
    /\ pc' = "returned"
    /\ UNCHANGED <<initial, strategy, stack, sudoku, newSudokus, invoked,
                   domainSudoku, ac3>>

DfsSolved ==
    /\ pc = "dfs"
    /\ stack # <<>>
    /\ HeadSolved
    /\ outcome' = [outcome EXCEPT
                     ![strategy] = [kind |-> "solved", sudoku |-> Head(stack)]]
    /\ pc' = "returned"
    /\ UNCHANGED <<initial, strategy, stack, sudoku, newSudokus, invoked,
                   domainSudoku, ac3>>

\* The children are put below the grids that wait: breadth first.
ExpandBreadthFirst(children) ==
    /\ sudoku' = Head(stack)
    /\ newSudokus' = children
    /\ stack' = Tail(stack) \o children
    /\ invoked' = TRUE
    /\ pc' = "dfs"
    /\ UNCHANGED <<initial, strategy, outcome, domainSudoku, ac3>>

\* `dfs([...strategy(sudoku), ...rest], strategy)` with a strategy that returns.
Expand(children) ==
    /\ sudoku' = Head(stack)
    /\ newSudokus' = children
    /\ stack' = children \o Tail(stack)
    /\ invoked' = TRUE
    /\ pc' = "dfs"
    /\ UNCHANGED <<initial, strategy, outcome, domainSudoku, ac3>>

\* The strategy throws: the exception leaves dfs.
Throw ==
    /\ sudoku' = Head(stack)
    /\ newSudokus' = <<>>
    /\ invoked' = TRUE
    /\ outcome' = [outcome EXCEPT ![strategy] = [kind |-> "error", sudoku |-> <<>>]]
    /\ pc' = "threw"
    /\ UNCHANGED <<initial, strategy, stack, domainSudoku, ac3>>

DfsBruteForce ==
    /\ pc = "dfs"
    /\ Strategies[strategy] = "bruteForce"
    /\ stack # <<>>
    /\ ~HeadSolved
    /\ Expand(bruteForceStrategy(Head(stack)))

DfsWithValidCheck ==
    /\ pc = "dfs"
    /\ Strategies[strategy] = "withValidCheck"
    /\ stack # <<>>
    /\ ~HeadSolved
    /\ Expand(withValidCheckStrategy(Head(stack)))

DfsMinimumRemainingValue ==
    /\ pc = "dfs"
    /\ Strategies[strategy] = "minimumRemainingValue"
    /\ stack # <<>>
    /\ ~HeadSolved
    /\ IF minimumRemainingValueThrows(Head(stack))
       THEN Throw
       ELSE Expand(minimumRemainingValueStrategy(Head(stack)))

\* AC3Strategy up to its call of ac3, and ac3 up to its loop.
DfsAC3Strategy ==
    /\ pc = "dfs"
    /\ Strategies[strategy] = "AC3"
    /\ stack # <<>>
    /\ ~HeadSolved
    /\ sudoku' = Head(stack)
    /\ newSudokus' = <<>>
    /\ invoked' = TRUE
    /\ domainSudoku' = toDomainSudoku(Head(stack))
    /\ ac3' = ac3Enter(toDomainSudoku(Head(stack)))
    /\ pc' = "ac3"
    /\ UNCHANGED <<initial, strategy, outcome, stack>>

\* One pass of ac3's loop; an empty domain returns `solvable: false`.
Ac3Loop ==
    /\ pc = "ac3"
    /\ ac3.coordinatesQueue # <<>>
    /\ ac3' = ac3Iteration(ac3)
    /\ domainSudoku' = IF ac3.private THEN domainSudoku ELSE ac3'.sudoku
    /\ pc' = IF ac3'.returned THEN "AC3Strategy" ELSE "ac3"
    /\ UNCHANGED <<initial, strategy, outcome, stack, sudoku, newSudokus, invoked>>

\* The queue is empty: `return { sudoku, solvable: true, iterations: 1 }`.
Ac3Exit ==
    /\ pc = "ac3"
    /\ ac3.coordinatesQueue = <<>>
    /\ ac3' = [ac3 EXCEPT !.returned = TRUE, !.solvable = TRUE]
    /\ pc' = "AC3Strategy"
    /\ UNCHANGED <<initial, strategy, outcome, stack, sudoku, newSudokus, invoked,
                   domainSudoku>>

\* AC3Strategy from the return of ac3 on, and the recursive call of dfs.
AC3StrategyResume ==
    /\ pc = "AC3Strategy"
    /\ IF AC3StrategyThrows(ac3)
       THEN /\ newSudokus' = <<>>
            /\ outcome' = [outcome EXCEPT
                             ![strategy] = [kind |-> "error", sudoku |-> <<>>]]
            /\ pc' = "threw"
            /\ UNCHANGED stack
       ELSE /\ newSudokus' = AC3StrategyReturn(ac3)
            /\ stack' = AC3StrategyReturn(ac3) \o Tail(stack)
            /\ pc' = "dfs"
            /\ UNCHANGED outcome
    /\ domainSudoku' = <<>>
    /\ ac3' = NoFrame
    /\ UNCHANGED <<initial, strategy, sudoku, invoked>>

\* The run of one strategy is over: the next strategy starts on the same grid.
NextStrategy ==
    /\ pc \in {"returned", "threw"}
    /\ strategy < Len(Strategies)
    /\ strategy' = strategy + 1
    /\ stack' = <<initial>>
    /\ sudoku' = initial
    /\ newSudokus' = <<>>
    /\ invoked' = FALSE
    /\ pc' = "dfs"
    /\ UNCHANGED <<initial, outcome, domainSudoku, ac3>>

\* The steps of one run of the driver.
DfsStep ==
    \/ DfsEmpty
    \/ DfsSolved
    \/ DfsBruteForce
    \/ DfsWithValidCheck
    \/ DfsMinimumRemainingValue
    \/ DfsAC3Strategy
    \/ Ac3Loop
    \/ Ac3Exit
    \/ AC3StrategyResume

Next ==
    \/ DfsEmpty
    \/ DfsSolved
    \/ DfsBruteForce
    \/ DfsWithValidCheck
    \/ DfsMinimumRemainingValue
    \/ DfsAC3Strategy
    \/ Ac3Loop
    \/ Ac3Exit
    \/ AC3StrategyResume
    \/ NextStrategy

Spec == Init /\ [][Next]_vars

(***************************************************************************)
(* Properties.                                                             *)
(***************************************************************************)

\* The valid complete grids that agree with grid on its filled cells.  A grid
\* with a duplicate has none, whatever its empty cells are given; any other
\* grid has those of the grids obtained by giving its first empty cell a digit.
RECURSIVE Solutions(_)
Solutions(grid) ==
    IF ~isSudokuValid(grid) THEN {}
    ELSE IF isSudokuFilled(grid) THEN {grid}
    ELSE LET c == getEmptyCoordinates(grid)[1]
         IN  UNION {Solutions([grid EXCEPT ![c[1]][c[2]] = k]) : k \in Digits}

AllCells == Idx \X Idx

\* The cells where two grids differ.
Changed(parent, child) == {c \in AllCells : parent[c[1]][c[2]] # child[c[1]][c[2]]}

\* Every cell that differs was empty in the parent and holds a digit in the child.
FillsOnly(parent, child) ==
    \A c \in Changed(parent, child) :
       parent[c[1]][c[2]] = 0 /\ child[c[1]][c[2]] \in Digits

\* Two equal nonzero digits in one row.
RowDuplicate(grid) ==
    \E i \in Idx : \E j \in Idx : \E l \in Idx :
       j # l /\ grid[i][j] # 0 /\ grid[i][j] = grid[i][l]

\* The cells other than <<r, c>> in its row, its column or its block.
Neighbours(r, c) ==
    {n \in AllCells :
       /\ n # <<r, c>>
       /\ \/ n[1] = r
          \/ n[2] = c
          \/ (n[1] \div B = r \div B /\ n[2] \div B = c \div B)}

RunOver == pc \in {"returned", "threw"}

AllRunsOver == strategy = Len(Strategies) /\ RunOver

\* C1: a run of the driver ends in one of two ways only: with a grid that has
\* no empty cell and passes isSudokuValid, or with "no solution" on an empty
\* stack.
C1_OnlyTwoOutcomes ==
    \A s \in 1 .. Len(Strategies) :
       \/ outcome[s].kind = "pending"
       \/ /\ outcome[s].kind = "solved"
          /\ isSudokuFilled(outcome[s].sudoku)
          /\ isSudokuValid(outcome[s].sudoku)
       \/ /\ outcome[s].kind = "none"
          /\ (s = strategy => stack = <<>>)

\* C2: the run of a strategy goes on until it terminates solved or exhausted:
\* once the driver has stopped (no step of DfsStep is left to take), the run
\* has ended with a solution or with "no solution".
C2_Terminates == RunOver => outcome[strategy].kind \in {"solved", "none"}

\* C3: when ac3 returns, the digit that a solution of the grid has in a cell
\* is still in the domain returned for that cell.
C3_ReducerSafety ==
    pc = "AC3Strategy" =>
      \A S \in Solutions(sudoku) : \A c \in AllCells :
         S[c[1]][c[2]] \in Range(ac3.sudoku[c[1]][c[2]])

\* ac3 has returned for a grid that has a solution, after removing values.
C3_Witness ==
    /\ pc = "AC3Strategy"
    /\ Solutions(sudoku) # {}
    /\ \E c \in AllCells :
          Len(ac3.sudoku[c[1]][c[2]]) < Len(domainSudoku[c[1]][c[2]])

\* C4: when ac3 returns solvable = false, the grid has no solution.
C4_ReducerSoundness ==
    (pc = "AC3Strategy" /\ ~ac3.solvable) => Solutions(sudoku) = {}

\* ac3 has returned solvable = false for a grid without any duplicate.
C4_Witness ==
    /\ pc = "AC3Strategy"
    /\ ~ac3.solvable
    /\ isSudokuValid(sudoku)

\* C5, as claimed: every child returned by any of the four strategies differs
\* from the parent in exactly one cell, empty in the parent and holding a digit
\* in the child.
C5_OneCellPerChild ==
    invoked =>
      \A n \in 1 .. Len(newSudokus) :
         /\ Cardinality(Changed(sudoku, newSudokus[n])) = 1
         /\ FillsOnly(sudoku, newSudokus[n])

\* C5, amended: that holds of bruteForceStrategy, withValidCheckStrategy and
\* minimumRemainingValueStrategy; a child returned by AC3Strategy differs from
\* the parent in one or more cells, each empty in the parent and holding a
\* digit in the child.
C5_ChildrenFillEmptyCells ==
    invoked =>
      \A n \in 1 .. Len(newSudokus) :
         /\ FillsOnly(sudoku, newSudokus[n])
         /\ Cardinality(Changed(sudoku, newSudokus[n])) >= 1
         /\ Strategies[strategy] # "AC3" =>
              Cardinality(Changed(sudoku, newSudokus[n])) = 1

\* AC3Strategy has returned a child with several cells of the parent filled.
C5_Witness ==
    /\ invoked
    /\ Strategies[strategy] = "AC3"
    /\ \E n \in 1 .. Len(newSudokus) :
          Cardinality(Changed(sudoku, newSudokus[n])) > 1

\* C6: called on a grid without any empty cell, a strategy returns normally,
\* and returns no child.
C6_NoBranchReturnsEmpty ==
    (invoked /\ pc \in {"dfs", "returned", "threw"} /\ isSudokuFilled(sudoku)) =>
      (pc # "threw" /\ newSudokus = <<>>)

\* C7, as claimed: on an initial grid with a duplicate in a row the driver
\* ends with "no solution" without calling the strategy or pushing a child.
C7_RejectsWithoutBranching ==
    RowDuplicate(initial) =>
      /\ ~invoked
      /\ stack \in {<<>>, <<initial>>}
      /\ \A s \in 1 .. Len(Strategies) : outcome[s].kind \in {"pending", "none"}

\* C7, amended: on such a grid the driver does call the strategy; no run ends
\* with a grid, a run ends otherwise than with "no solution" only when
\* minimumRemainingValueStrategy throws on a grid without empty cell, and no
\* strategy but bruteForceStrategy pushes a child.
C7_NoSolutionFromRowDuplicate ==
    RowDuplicate(initial) =>
      /\ RunOver => invoked
      /\ \A s \in 1 .. Len(Strategies) :
            /\ outcome[s].kind # "solved"
            /\ outcome[s].kind = "error" =>
                 (Strategies[s] = "minimumRemainingValue" /\ isSudokuFilled(initial))
      /\ Strategies[strategy] # "bruteForce" => stack \in {<<>>, <<initial>>}

\* The four runs are over on a grid with a duplicate in a row and empty cells.
C7_Witness ==
    /\ RowDuplicate(initial)
    /\ ~isSudokuFilled(initial)
    /\ AllRunsOver
    /\ \A s \in 1 .. Len(Strategies) : outcome[s].kind = "none"

\* C8: the four strategies end alike, all with "no solution" or all with a
\* solution, and with the same grid when the initial grid has one solution.
C8_StrategiesAgree ==
    AllRunsOver =>
      /\ \/ \A s \in 1 .. Len(Strategies) : outcome[s].kind = "none"
         \/ \A s \in 1 .. Len(Strategies) : outcome[s].kind = "solved"
      /\ Cardinality(Solutions(initial)) = 1 =>
           \A s \in 1 .. Len(Strategies) : outcome[s].sudoku \in Solutions(initial)

C10_NeighboursRequeued ==
    (pc = "ac3" /\ ac3.change) =>
      LET queued == {ac3.coordinatesQueue[n].xy : n \in 1 .. Len(ac3.coordinatesQueue)}
      IN  /\ <<ac3.x, ac3.y>> \in queued
          /\ \A n \in Neighbours(ac3.y, ac3.x) : <<n[2], n[1]>> \in queued

\* C11: while ac3 runs its queue holds every coordinate at most once, hence
\* never more than N * N coordinates.
C11_QueueHoldsEachCoordinateOnce ==
    pc = "ac3" =>
      /\ Len(ac3.coordinatesQueue) <= N * N
      /\ \A n \in 1 .. Len(ac3.coordinatesQueue) :
            \A m \in 1 .. Len(ac3.coordinatesQueue) :
               ac3.coordinatesQueue[n].xy = ac3.coordinatesQueue[m].xy => n = m

\* C12: when ac3 returns solvable, no value of a cell's returned domain is the
\* single value of one of the cell's neighbours.
C12_ReturnedGridIsFixpoint ==
    (pc = "AC3Strategy" /\ ac3.solvable) =>
      \A c \in AllCells : \A n \in Neighbours(c[1], c[2]) :
         Len(ac3.sudoku[n[1]][n[2]]) = 1 =>
           ac3.sudoku[n[1]][n[2]][1] \notin Range(ac3.sudoku[c[1]][c[2]])

\* s is the end of t.
IsSuffix(s, t) ==
    /\ Len(s) <= Len(t)
    /\ \A n \in 1 .. Len(s) : s[n] = t[Len(t) - Len(s) + n]

Running == pc \in {"dfs", "ac3", "AC3Strategy"}

\* C13: the driver explores depth first.  The grid given to the strategy is the
\* top of the stack, its children take its place on top of the grids that were
\* below it, and those grids stay where they are: none of them becomes the top,
\* hence none is evaluated, before every child and descendant has been popped.
C13_DepthFirst ==
    [][(Running /\ stack # <<>>) =>
         /\ IsSuffix(Tail(stack), stack')
         /\ stack' # stack =>
              (sudoku' = Head(stack) /\ stack' = newSudokus' \o Tail(stack))]_vars

\* The children of a grid are on top of grids that were on the stack before.
C13_Witness ==
    /\ pc = "dfs"
    /\ Len(newSudokus) > 1
    /\ Len(stack) > Len(newSudokus)
    /\ SubSeq(stack, 1, Len(newSudokus)) = newSudokus

(***************************************************************************)
(* The same runs, and the run of bruteForceStrategy on a grid with two     *)
(* empty rows, which fills the stack beyond N * N grids.  That run is      *)
(* followed only as long as the stack holds no more than StackCap grids:   *)
(* it would go through 9^18 grids.                                         *)
(***************************************************************************)

StackCap == 81

DeepHoles == {c \in Idx \X Idx : c[1] <= 1}

InitDeep ==
    /\ \/ /\ strategy = 1
          /\ initial \in InitialGrids
       \/ /\ strategy \in {s \in 1 .. Len(Strategies) : Strategies[s] = "bruteForce"}
          /\ initial = Dig(Solved, DeepHoles)
    /\ outcome = [s \in 1 .. Len(Strategies) |-> Pending]
    /\ pc = "dfs"
    /\ stack = <<initial>>
    /\ sudoku = initial
    /\ newSudokus = <<>>
    /\ invoked = FALSE
    /\ domainSudoku = <<>>
    /\ ac3 = NoFrame

NextDeep == Len(stack) <= StackCap /\ Next

SpecDeep == InitDeep /\ [][NextDeep]_vars

\* The number of empty cells of a grid.
Empties(grid) == Len(getEmptyCoordinates(grid))

\* Two grids hold different digits in some cell: no grid obtained by filling
\* empty cells of the one is obtained by filling empty cells of the other.
Incompatible(g, h) ==
    \E c \in AllCells :
       g[c[1]][c[2]] # 0 /\ h[c[1]][c[2]] # 0 /\ g[c[1]][c[2]] # h[c[1]][c[2]]

\* Every child has fewer empty cells than its parent and fills empty cells of
\* it only; the grid on top of the stack, the next to be evaluated, is
\* incompatible with every grid below it.  A grid evaluated later is a child or
\* descendant of the top, with fewer empty cells, or one of the grids below or
\* a descendant of one, incompatible with the top: none equals the top, so no
\* grid is evaluated twice.
FewerEmptyNoRepeat ==
    /\ (invoked /\ pc \in {"dfs", "returned"}) =>
         \A n \in 1 .. Len(newSudokus) :
            /\ Empties(newSudokus[n]) < Empties(sudoku)
            /\ FillsOnly(sudoku, newSudokus[n])
    /\ (pc = "dfs" /\ stack # <<>>) =>
         \A n \in 2 .. Len(stack) : Incompatible(stack[1], stack[n])

\* C14, as claimed: every child has fewer empty cells than its parent, no grid
\* is evaluated twice, and the stack never holds more than N * N grids.
C14_FewerEmptyNoRepeatAtMost81 ==
    /\ FewerEmptyNoRepeat
    /\ Len(stack) <= N * N

\* C14, amended: every child has fewer empty cells than its parent, no grid is
\* evaluated twice, and the stack never holds more than 8 grids for each empty
\* cell of the initial grid, and one.
C14_FewerEmptyNoRepeatBoundedStack ==
    /\ FewerEmptyNoRepeat
    /\ Len(stack) <= (N - 1) * Empties(initial) + 1

\* Children are on a stack that holds more than N * N grids.
C14_Witness ==
    /\ pc = "dfs"
    /\ invoked
    /\ Len(newSudokus) = N
    /\ Len(stack) > N * N

\* The number of values in the domains from the n-th cell on, row by row.
RECURSIVE DomainSizesFrom(_, _)
DomainSizesFrom(grid, n) ==
    IF n > Len(CellsRowMajor) THEN 0
    ELSE Len(grid[CellsRowMajor[n][1]][CellsRowMajor[n][2]]) + DomainSizesFrom(grid, n + 1)

DomainSizes(grid) == DomainSizesFrom(grid, 1)

\* What a pass puts back at most: the cell, and 8 coordinates each for its
\* row, its column and its block.
Requeued == 3 * (N - 1) + 1

\* Decreases with every pass: a pass takes one coordinate from the queue and
\* puts Requeued back only if it took a value from a domain.
Measure(f) == Requeued * DomainSizes(f.sudoku) + Len(f.coordinatesQueue)

\* C15: ac3 terminates.  No pass adds a value to a domain; a pass after which
\* the queue is not shorter has taken a value from a domain; so every pass that
\* does not return lowers Measure, which is never negative: after finitely many
\* passes the queue is empty or an empty domain has made ac3 return.
C15_Ac3Terminates ==
    [][(pc = "ac3" /\ pc' = "ac3") =>
         /\ DomainSizes(ac3'.sudoku) <= DomainSizes(ac3.sudoku)
         /\ Len(ac3'.coordinatesQueue) >= Len(ac3.coordinatesQueue) =>
              DomainSizes(ac3'.sudoku) < DomainSizes(ac3.sudoku)
         /\ Measure(ac3') < Measure(ac3)
         /\ Measure(ac3') >= 0]_vars

\* ac3 has returned with an empty queue after passes that put coordinates back.
C15_Witness ==
    /\ pc = "AC3Strategy"
    /\ ac3.solvable
    /\ ac3.coordinatesQueue = <<>>
    /\ ac3.refs > N * N

\* 9 minus the number of digits in the row, the column and the block of c.
RemainingValues(grid, c) ==
    N - Cardinality({grid[p[1]][p[2]] : p \in Neighbours(c[1], c[2]) \cup {c}} \ {0})

\* The place of a cell in row-major order.
RowMajor(c) == N * c[1] + c[2]

\* The empty cell with the least RemainingValues, the first of them row by row.
LeastRemainingCell(grid) ==
    LET empty == {c \in AllCells : grid[c[1]][c[2]] = 0}
    IN  CHOOSE c \in empty :
           \A d \in empty :
              \/ RemainingValues(grid, c) < RemainingValues(grid, d)
              \/ /\ RemainingValues(grid, c) = RemainingValues(grid, d)
                 /\ RowMajor(c) <= RowMajor(d)

\* children is the grids that give cell c of grid the values of digits, one
\* child per value, ascending.
OneChildPerValue(children, grid, c, digits) ==
    /\ {children[n][c[1]][c[2]] : n \in 1 .. Len(children)} = digits
    /\ \A n \in 1 .. Len(children) :
          /\ children[n] = [grid EXCEPT ![c[1]][c[2]] = children[n][c[1]][c[2]]]
          /\ \A m \in 1 .. Len(children) :
                n < m => children[n][c[1]][c[2]] < children[m][c[1]][c[2]]

\* C16: called on a grid with an empty cell, minimumRemainingValueStrategy
\* returns the grids that give the empty cell with the least count of
\* remaining values (the first row by row among equals) each digit with which
\* the grid passes isSudokuValid, in ascending order, and nothing else.
C16_BranchesOnLeastRemaining ==
    ( /\ Strategies[strategy] = "minimumRemainingValue"
      /\ invoked
      /\ pc \in {"dfs", "returned"}
      /\ ~isSudokuFilled(sudoku) ) =>
      LET c == LeastRemainingCell(sudoku)
      IN  OneChildPerValue(newSudokus, sudoku, c,
             {k \in Digits : isSudokuValid([sudoku EXCEPT ![c[1]][c[2]] = k])})

\* minimumRemainingValueStrategy has returned children for a cell that is not
\* the first empty cell of its grid.
C16_Witness ==
    /\ Strategies[strategy] = "minimumRemainingValue"
    /\ invoked
    /\ pc = "dfs"
    /\ newSudokus # <<>>
    /\ ~isSudokuFilled(sudoku)
    /\ newSudokus[1][getEmptyCoordinates(sudoku)[1][1]][getEmptyCoordinates(sudoku)[1][2]] = 0

\* The cells of a domain grid with more than one value.
Undecided(reduced) == {c \in AllCells : Len(reduced[c[1]][c[2]]) > 1}

\* The undecided cell with the fewest values, the first of them row by row.
SmallestDomainCell(reduced) ==
    CHOOSE c \in Undecided(reduced) :
       \A d \in Undecided(reduced) :
          \/ Len(reduced[c[1]][c[2]]) < Len(reduced[d[1]][d[2]])
          \/ /\ Len(reduced[c[1]][c[2]]) = Len(reduced[d[1]][d[2]])
             /\ RowMajor(c) <= RowMajor(d)

PokeCells == {<<0, 1>>, <<4, 4>>, <<8, 6>>}

\* The neighbours of cell p that hold digit k in the solved grid.
SameDigit(p, k) == {n \in Neighbours(p[1], p[2]) : Solved[n[1]][n[2]] = k}

InvalidGrids ==
    LET poked == UNION { UNION { {Poke(Dig(Solved, holes), {<<p[1], p[2], k>>}) :
                                    holes \in SUBSET SameDigit(p, k)} :
                                 k \in Digits } :
                         p \in PokeCells }
    IN  {grid \in poked : ~isSudokuValid(grid)}

InitInvalid ==
    /\ initial \in InitialGrids \cup InvalidGrids
    /\ strategy = 1
    /\ outcome = [s \in 1 .. Len(Strategies) |-> Pending]
    /\ pc = "dfs"
    /\ stack = <<initial>>
    /\ sudoku = initial
    /\ newSudokus = <<>>
    /\ invoked = FALSE
    /\ domainSudoku = <<>>
    /\ ac3 = NoFrame

SpecInvalid == InitInvalid /\ [][Next]_vars

\* C18: on a grid that fails isSudokuValid, ac3 returns solvable = false and
\* AC3Strategy returns no child: the driver goes on with the grids that were
\* below that grid.
C18_InvalidGridHasNoChild ==
    /\ (pc = "AC3Strategy" /\ ~isSudokuValid(sudoku)) =>
         (~ac3.solvable /\ AC3StrategyReturn(ac3) = <<>>)
    /\ (Strategies[strategy] = "AC3" /\ invoked /\ pc \in {"dfs", "returned"}
          /\ ~isSudokuValid(sudoku)) => newSudokus = <<>>

\* ac3 has returned on a grid whose only duplicate is in a column.
C18_Witness ==
    /\ pc = "AC3Strategy"
    /\ ~ac3.solvable
    /\ ~isSudokuValid(sudoku)
    /\ ~RowDuplicate(sudoku)
    /\ \E j \in Idx : \E i \in Idx : \E l \in Idx :
          i # l /\ sudoku[i][j] # 0 /\ sudoku[i][j] = sudoku[l][j]
             /\ i \div B # l \div B

\* C19: when ac3 returns solvable, no two neighbouring cells have the same
\* single value; so if every cell has a single value the projected grid is
\* filled and valid, and AC3Strategy does not come to take the first of an
\* empty list of undecided cells.
C19_NoEqualSingletonNeighbours ==
    (pc = "AC3Strategy" /\ ac3.solvable) =>
      /\ \A c \in AllCells : \A n \in Neighbours(c[1], c[2]) :
            ~ /\ Len(ac3.sudoku[c[1]][c[2]]) = 1
              /\ ac3.sudoku[n[1]][n[2]] = ac3.sudoku[c[1]][c[2]]
      /\ Undecided(ac3.sudoku) = {} => AC3Solved(ac3.sudoku)
      /\ ~AC3StrategyThrows(ac3)

\* ac3 has returned solvable with a single value in every cell, on a grid that
\* had empty cells.
C19_Witness ==
    /\ pc = "AC3Strategy"
    /\ ac3.solvable
    /\ Undecided(ac3.sudoku) = {}
    /\ ~isSudokuFilled(sudoku)

\* The grid holds the digit of the initial grid in every cell that is filled
\* in the initial grid (row by row: a row equal to the initial one does).
KeepsGivens(grid) ==
    \A i \in Idx :
       \/ grid[i] = initial[i]
       \/ \A j \in Idx : initial[i][j] # 0 => grid[i][j] = initial[i][j]

\* C20: every grid on the stack, and the grid a run ends with, holds the digit
\* of the initial grid in every cell that is filled in the initial grid.
C20_GivensPreserved ==
    /\ \A n \in 1 .. Len(stack) : KeepsGivens(stack[n])
    /\ \A s \in 1 .. Len(Strategies) :
          outcome[s].kind = "solved" => KeepsGivens(outcome[s].sudoku)

\* A run has ended with a grid that fills empty cells of the initial grid,
\* after grids were pushed on the stack.
C20_Witness ==
    /\ pc = "returned"
    /\ invoked
    /\ outcome[strategy].kind = "solved"
    /\ outcome[strategy].sudoku # initial
    /\ Len(stack) > 1

====
